---- MODULE Spec2Model ----
(***************************************************************************)
(* A model of tinyalsa-cxx (src/tinyalsa.cpp): the PCM handle (class pcm   *)
(* and its pcm_impl), the system calls it issues, and the device-name      *)
(* parser (parsed_name::parse).                                            *)
(*                                                                         *)
(* Spec      : handles are constructed, move-constructed, opened, closed,  *)
(*             driven (prepare/setup/start/drop/get_info) and destroyed in *)
(*             any order, every system call free to succeed or to fail.    *)
(* SpecParse : parsed_name::parse applied to a bounded set of file names.  *)
(* SpecInfo  : to_tinyalsa_info applied to a bounded set of native infos.  *)
(* SpecList  : the constructor of pcm_list scanning a bounded /dev/snd,     *)
(*             one loop step at a time.                                    *)
(***************************************************************************)
EXTENDS Integers, Sequences, FiniteSets, TLC

VARIABLES
  hstate,   \* per handle slot: "none" (no object lives there) or "alive"
  self,     \* pcm::self of each handle: a pcm_impl, or NULL
  allocd,   \* the pcm_impl objects currently allocated on the heap
  fdOf,     \* pcm_impl::fd of each pcm_impl
  kfds,     \* the descriptors open in the process's descriptor table
  last,     \* the operation that ran last: what it was called on, what it returned
  calls,    \* the system calls the last operation issued, in order
  attempted,\* the handles an open was attempted on (history: the program keeps no such record)
  pc,       \* SpecParse: "input" before parse has run, "done" after
  name,     \* SpecParse: the file name handed to the parser
  gen,      \* SpecParse: the (card, device, direction) the name was built from, if any
  dpath,    \* SpecParse: the device path the name was taken from, if any
  parsed,   \* SpecParse: the parsed_name object after its constructor
  native,   \* SpecInfo: the snd_pcm_info the kernel filled in
  info,     \* SpecInfo: the pcm_info built from it
  list_self,\* SpecList: pcm_list::self, a pcm_list_impl or NULL
  snd_dir,  \* SpecList: dir_wrapper::ptr of snd_dir, a DIR or NULL
  dirstream,\* SpecList: whether the kernel holds the directory stream open
  dirents,  \* SpecList: the names readdir has yet to report, in order
  info_vec, \* SpecList: pcm_list_impl::info_vec
  probes    \* SpecList: what became of each entry read (history)

vars == <<hstate, self, allocd, fdOf, kfds, last, calls, attempted, pc, name, gen, dpath,
          parsed, native, info, list_self, snd_dir, dirstream, dirents, info_vec, probes>>

hvars == <<hstate, self, allocd, fdOf, kfds, last, calls, attempted>>
lvars == <<list_self, snd_dir, dirstream, dirents, info_vec, probes>>
pvars == <<pc, name, gen, dpath, parsed, native, info, lvars>>

----------------------------------------------------------------------------
(* Bounds *)

NumHandles == 2      \* handle slots (objects of class pcm that can live at once)
MaxFd      == 1      \* the descriptor table holds descriptors 0..MaxFd

Handles == 1..NumHandles
ImplIds == 1..NumHandles     \* heap cells for pcm_impl: one per handle suffices
FdSpace == 0..MaxFd

\* The card and device indices Spec opens.  They reach the program only in the
\* path handed to ::open, which the kernel answers as it chooses whatever the
\* path: one device, opened for capture or playback, stands for all.
OpenIndices == {0}

\* The frame counts a read is called with: none, and enough for a read to
\* fall short by one or by all
FrameCounts == {0, 2}

----------------------------------------------------------------------------
(* Program constants *)

NULL   == 0          \* nullptr
ENOENT == 2
ENOMEM == 12
EINVAL == 22
EPROTO == 71
EBADF  == 9          \* what the kernel answers for a descriptor that is not open

\* errno as a member function finds it: whatever the code that ran before left
\* there.  It stands for any such value: no system call of the model produces
\* it and the program returns it nowhere as a constant, so a member function
\* that returned errno with no failing call before it is seen to return it.
StaleErrno == 99

\* tinyalsa.hpp: pcm::invalid_fd()
invalid_fd == -1

\* errno values a failing ::close, ::open and ::ioctl may leave: the kernel's
\* choice among its non-zero codes; one code per call (EIO, EACCES, ENOTTY),
\* distinct from each other and from the codes the program itself returns.
CloseErrnos == {5}
OpenErrnos  == {13}
IoctlErrnos == {25}
ReadErrnos  == {11}

----------------------------------------------------------------------------
(* Paths: strings are sequences of characters *)

Digit(d) == CASE d = 0 -> "0" [] d = 1 -> "1" [] d = 2 -> "2" [] d = 3 -> "3"
              [] d = 4 -> "4" [] d = 5 -> "5" [] d = 6 -> "6" [] d = 7 -> "7"
              [] d = 8 -> "8" [] d = 9 -> "9"

\* printf's %lu: the decimal digits of n, most significant first, no padding
RECURSIVE fmt_lu(_)
fmt_lu(n) == IF n < 10 THEN <<Digit(n)>> ELSE Append(fmt_lu(n \div 10), Digit(n % 10))

DevSnd == <<"/", "d", "e", "v", "/", "s", "n", "d", "/">>

\* A capture path written without the D between the two numbers
capture_path_no_separator(card, device) ==
  DevSnd \o <<"p", "c", "m", "C">> \o fmt_lu(card) \o fmt_lu(device) \o <<"c">>

\* snprintf(path, sizeof(path), "/dev/snd/pcmC%luD%luc", card, device)
capture_path(card, device) ==
  DevSnd \o <<"p", "c", "m", "C">> \o fmt_lu(card) \o <<"D">> \o fmt_lu(device) \o <<"c">>

\* snprintf(path, sizeof(path), "/dev/snd/pcmC%luD%lup", card, device)
playback_path(card, device) ==
  DevSnd \o <<"p", "c", "m", "C">> \o fmt_lu(card) \o <<"D">> \o fmt_lu(device) \o <<"p">>

\* non_blocking ? (O_RDWR | O_NONBLOCK) : O_RDWR
open_flags(non_blocking) == IF non_blocking THEN {"O_RDWR", "O_NONBLOCK"} ELSE {"O_RDWR"}

----------------------------------------------------------------------------
(* The system-call boundary.  A world w is what a member function reads and
   writes: the pcm_impl descriptors (fdm), the descriptor table (k), errno (e)
   and the calls issued so far (calls: the call, the descriptor it is issued
   on, its other arguments, its outcome).  Each call takes the outcome the
   kernel chose for it and returns the world after it; its return value is a
   separate operator of the same outcome. *)

World == [fdm |-> fdOf, k |-> kfds, e |-> StaleErrno, calls |-> <<>>]

\* ::close(f).  out = 0: success; out > 0: failure with errno out.  The
\* descriptor is released either way (Linux releases it before reporting).
CloseOutcomes(w, f) == IF f \in w.k THEN {0} \cup CloseErrnos ELSE {EBADF}
sys_close(w, f, out) ==
  [w EXCEPT !.k = @ \ {f},
            !.e = IF out = 0 THEN @ ELSE out,
            !.calls = Append(@, [call |-> "close", fd |-> f, arg |-> <<>>, out |-> out])]
close_ret(out) == IF out = 0 THEN 0 ELSE -1

\* ::open(path, flags).  out >= 0: the new descriptor, the lowest-numbered one
\* not open (POSIX); out < 0: failure with errno -out, the only outcome left
\* when the table is full.
Lowest(S) == IF S = {} THEN {} ELSE {CHOOSE x \in S : \A y \in S : x <= y}
OpenOutcomes(w) == Lowest(FdSpace \ w.k) \cup {-x : x \in OpenErrnos}
sys_open(w, path, flags, out) ==
  [w EXCEPT !.k = IF out >= 0 THEN @ \cup {out} ELSE @,
            !.e = IF out >= 0 THEN @ ELSE -out,
            !.calls = Append(@, [call |-> "open", fd |-> invalid_fd,
                                 arg |-> <<path, flags>>, out |-> out])]
open_ret(out) == IF out >= 0 THEN out ELSE -1

\* ::ioctl(f, request).  out = 0: success; out > 0: failure with errno out.
IoctlOutcomes(w, f) == IF f \in w.k THEN {0} \cup IoctlErrnos ELSE {EBADF}
sys_ioctl(w, f, request, out) ==
  [w EXCEPT !.e = IF out = 0 THEN @ ELSE out,
            !.calls = Append(@, [call |-> request, fd |-> f, arg |-> <<>>, out |-> out])]
ioctl_ret(out) == IF out = 0 THEN 0 ELSE -1

\* ::ioctl(f, SNDRV_PCM_IOCTL_READI_FRAMES, &transfer) with transfer.frames =
\* frame_count.  The outcome is the errno (0: success) and what the kernel
\* leaves in transfer.result: on success the frames transferred, any number
\* from 0 to frame_count; on failure the negated errno.
ReadiOutcomes(w, f, frame_count) ==
  IF f \in w.k
  THEN [err : {0}, result : 0..frame_count] \cup {[err |-> x, result |-> -x] : x \in ReadErrnos}
  ELSE {[err |-> EBADF, result |-> -EBADF]}
sys_readi(w, f, frame_count, out) ==
  [w EXCEPT !.e = IF out.err = 0 THEN @ ELSE out.err,
            !.calls = Append(@, [call |-> "READI_FRAMES", fd |-> f,
                                 arg |-> <<frame_count, out.result>>, out |-> out.err])]
readi_ret(out) == IF out.err = 0 THEN 0 ELSE -1

\* What a member function hands back: the world it leaves and its return value.
Ret(w, r) == [w |-> w, ret |-> r]

----------------------------------------------------------------------------
(* class pcm *)

\* lazy_init(impl): the pointers it may return: impl itself when not null,
\* else a newly allocated pcm_impl (the heap cells are interchangeable: the
\* lowest free one) or, when allocation fails, nullptr.
lazy_init(impl) == IF impl # NULL THEN {impl} ELSE Lowest(ImplIds \ allocd) \cup {NULL}

\* Mutant of pcm_move: the source keeps its pointer.
pcm_move_keeps_source(h, other) == [self EXCEPT ![h] = self[other]]

\* pcm::pcm(pcm&& other): the self pointers after the move into handle h.
pcm_move(h, other) == [self EXCEPT ![h] = self[other], ![other] = NULL]

\* pcm::get_file_descriptor() on a handle whose self is s, in world w
get_file_descriptor(w, s) == IF s # NULL THEN w.fdm[s] ELSE invalid_fd

\* Mutant of is_open: an allocated handle counts as open.
is_open_allocated(w, s) == s # NULL

\* pcm::is_open()
is_open(w, s) == IF s = NULL THEN FALSE ELSE w.fdm[s] # invalid_fd

\* Mutant of pcm_close: the descriptor is reset only when ::close succeeded.
pcm_close_keeps_fd_on_error(w, s, cout) ==
  IF s = NULL THEN Ret(w, 0)
  ELSE IF w.fdm[s] # invalid_fd
       THEN LET w1 == sys_close(w, w.fdm[s], cout)
            IN  IF close_ret(cout) = -1 THEN Ret(w1, w1.e)
                ELSE Ret([w1 EXCEPT !.fdm[s] = invalid_fd], 0)
       ELSE Ret(w, 0)

\* Mutant of pcm_close: ::close is issued without the test for invalid_fd.
pcm_close_unguarded(w, s, cout) ==
  IF s = NULL THEN Ret(w, 0)
  ELSE LET w1 == sys_close(w, w.fdm[s], cout)
           w2 == [w1 EXCEPT !.fdm[s] = invalid_fd]
       IN  IF close_ret(cout) = -1 THEN Ret(w2, w2.e) ELSE Ret(w2, 0)

\* pcm::close(); cout is the outcome of ::close, should it be issued.
pcm_close(w, s, cout) ==
  IF s = NULL THEN Ret(w, 0)
  ELSE IF w.fdm[s] # invalid_fd
       THEN LET w1 == sys_close(w, w.fdm[s], cout)
                w2 == [w1 EXCEPT !.fdm[s] = invalid_fd]
            IN  IF close_ret(cout) = -1 THEN Ret(w2, w2.e) ELSE Ret(w2, 0)
       ELSE Ret(w, 0)

\* Mutant of pcm_dtor: the pcm_impl is deleted with its descriptor left open.
pcm_dtor_no_close(w, s, cout) == Ret(w, 0)

\* pcm::~pcm(): close(), whose result is dropped; delete self is the caller's
\* to record, this being the world the destructor leaves.
pcm_dtor(w, s, cout) == pcm_close(w, s, cout)

\* result::failed(), generic_result::failed()
failed(ret) == ret # 0

\* Mutant of pcm_ctl: a null self is reported as a bad descriptor.
pcm_ctl_null_is_ebadf(w, s, request, out) ==
  IF s = NULL THEN Ret(w, EBADF)
  ELSE LET w1 == sys_ioctl(w, w.fdm[s], request, out)
       IN  IF ioctl_ret(out) < 0 THEN Ret(w1, w1.e) ELSE Ret(w1, 0)

\* Mutant of pcm_ctl: a failed control call drops the descriptor.
pcm_ctl_resets_fd_on_error(w, s, request, out) ==
  IF s = NULL THEN Ret(w, ENOENT)
  ELSE LET w1 == sys_ioctl(w, w.fdm[s], request, out)
       IN  IF ioctl_ret(out) < 0 THEN Ret([w1 EXCEPT !.fdm[s] = invalid_fd], w1.e)
           ELSE Ret(w1, 0)

\* pcm::prepare(), pcm::start(), pcm::drop(): the same code but for the request.
pcm_ctl(w, s, request, out) ==
  IF s = NULL THEN Ret(w, ENOENT)
  ELSE LET w1 == sys_ioctl(w, w.fdm[s], request, out)
       IN  IF ioctl_ret(out) < 0 THEN Ret(w1, w1.e) ELSE Ret(w1, 0)

\* pcm::setup(const pcm_config&)
pcm_setup(w, s) == Ret(w, EPROTO)

\* pcm::get_info(): the error code of the generic_result it returns.
pcm_get_info(w, s, out) ==
  IF s = NULL THEN Ret(w, ENOENT)
  ELSE LET w1 == sys_ioctl(w, w.fdm[s], "INFO", out)
       IN  IF ioctl_ret(out) # 0 THEN Ret(w1, w1.e) ELSE Ret(w1, 0)

\* Mutant of open_by_path: the descriptor held is overwritten, not closed.
open_by_path_no_close(w, s, path, non_blocking, cout, oout) ==
  LET w2 == sys_open(w, path, open_flags(non_blocking), oout)
      w3 == [w2 EXCEPT !.fdm[s] = open_ret(oout)]
  IN  IF w3.fdm[s] < 0
      THEN Ret([w3 EXCEPT !.fdm[s] = invalid_fd], w3.e)
      ELSE Ret(w3, 0)

\* Mutant of open_by_path: a failure to close the descriptor held is reported.
open_by_path_reports_close(w, s, path, non_blocking, cout, oout) ==
  LET w1 == IF w.fdm[s] # invalid_fd THEN sys_close(w, w.fdm[s], cout) ELSE w
      w2 == sys_open(w1, path, open_flags(non_blocking), oout)
      w3 == [w2 EXCEPT !.fdm[s] = open_ret(oout)]
  IN  IF w3.fdm[s] < 0
      THEN Ret([w3 EXCEPT !.fdm[s] = invalid_fd], w3.e)
      ELSE IF w.fdm[s] # invalid_fd /\ close_ret(cout) = -1 THEN Ret(w3, w3.e)
      ELSE Ret(w3, 0)

\* pcm_impl::open_by_path(path, non_blocking) on pcm_impl s; cout and oout are
\* the outcomes of ::close (should it be issued) and of ::open.
open_by_path(w, s, path, non_blocking, cout, oout) ==
  LET w1 == IF w.fdm[s] # invalid_fd THEN sys_close(w, w.fdm[s], cout) ELSE w
      w2 == sys_open(w1, path, open_flags(non_blocking), oout)
      w3 == [w2 EXCEPT !.fdm[s] = open_ret(oout)]
  IN  IF w3.fdm[s] < 0
      THEN Ret([w3 EXCEPT !.fdm[s] = invalid_fd], w3.e)
      ELSE Ret(w3, 0)

\* pcm::open_capture_device / pcm::open_playback_device after self =
\* lazy_init(self) has given s.
pcm_open(w, s, path, non_blocking, cout, oout) ==
  IF s = NULL THEN Ret(w, ENOMEM)
  ELSE open_by_path(w, s, path, non_blocking, cout, oout)

----------------------------------------------------------------------------
(* Native ALSA to TinyALSA *)

\* The device class and subclass codes of <sound/asound.h>
SNDRV_PCM_CLASS_GENERIC   == 0
SNDRV_PCM_CLASS_MULTI     == 1
SNDRV_PCM_CLASS_MODEM     == 2
SNDRV_PCM_CLASS_DIGITIZER == 3
SNDRV_PCM_SUBCLASS_GENERIC_MIX == 0
SNDRV_PCM_SUBCLASS_MULTI_MIX   == 1

\* enum class pcm_class, enum class pcm_subclass
pcm_class    == {"unknown", "generic", "multi_channel", "modem", "digitizer"}
pcm_subclass == {"unknown", "generic_mix", "multi_channel_mix"}

\* Mutant of to_tinyalsa_class: a code the switch does not list is taken for
\* the generic class.
to_tinyalsa_class_default_generic(native_class_) ==
  CASE native_class_ = SNDRV_PCM_CLASS_GENERIC   -> "generic"
    [] native_class_ = SNDRV_PCM_CLASS_MULTI     -> "multi_channel"
    [] native_class_ = SNDRV_PCM_CLASS_MODEM     -> "modem"
    [] native_class_ = SNDRV_PCM_CLASS_DIGITIZER -> "digitizer"
    [] OTHER -> "generic"

\* to_tinyalsa_class(int native_class_)
to_tinyalsa_class(native_class_) ==
  CASE native_class_ = SNDRV_PCM_CLASS_GENERIC   -> "generic"
    [] native_class_ = SNDRV_PCM_CLASS_MULTI     -> "multi_channel"
    [] native_class_ = SNDRV_PCM_CLASS_MODEM     -> "modem"
    [] native_class_ = SNDRV_PCM_CLASS_DIGITIZER -> "digitizer"
    [] OTHER -> "unknown"

\* to_tinyalsa_subclass(int native_subclass)
to_tinyalsa_subclass(native_subclass) ==
  CASE native_subclass = SNDRV_PCM_SUBCLASS_GENERIC_MIX -> "generic_mix"
    [] native_subclass = SNDRV_PCM_SUBCLASS_MULTI_MIX   -> "multi_channel_mix"
    [] OTHER -> "unknown"

\* A pcm_info before anything is stored in it, and no native info at all
pcm_info_default == [card |-> 0, device |-> 0, class_ |-> "unknown", subclass |-> "unknown"]
NoNative == [card |-> 0, device |-> 0, dev_class |-> 0, dev_subclass |-> 0]

\* to_tinyalsa_info(native_info): the fields copied as they are stand in card
\* and device; class_ and subclass go through the two switches.
to_tinyalsa_info(native_info) ==
  [card     |-> native_info.card,
   device   |-> native_info.device,
   class_   |-> to_tinyalsa_class(native_info.dev_class),
   subclass |-> to_tinyalsa_subclass(native_info.dev_subclass)]

----------------------------------------------------------------------------
(* class interleaved_pcm_reader *)

\* What read_unformatted hands back: a generic_result<size_type>, its error
\* code in ret and its payload in val.
RetVal(w, r, v) == [w |-> w, ret |-> r, val |-> v]

\* Mutant of read_unformatted: the platform's error code is handed on.
read_unformatted_reports_errno(w, s, frame_count, out) ==
  LET w1 == sys_readi(w, get_file_descriptor(w, s), frame_count, out)
  IN  IF readi_ret(out) # 0 THEN RetVal(w1, w1.e, 0) ELSE RetVal(w1, 0, out.result)

\* Mutant of read_unformatted: the frames asked for are reported as read.
read_unformatted_reports_request(w, s, frame_count, out) ==
  LET w1 == sys_readi(w, get_file_descriptor(w, s), frame_count, out)
  IN  IF readi_ret(out) # 0 THEN RetVal(w1, EINVAL, 0) ELSE RetVal(w1, 0, frame_count)

\* interleaved_pcm_reader::read_unformatted(frames, frame_count) on a reader
\* whose self is s; out is the outcome of the read call.
read_unformatted(w, s, frame_count, out) ==
  LET w1 == sys_readi(w, get_file_descriptor(w, s), frame_count, out)
  IN  IF readi_ret(out) # 0 THEN RetVal(w1, EINVAL, 0) ELSE RetVal(w1, 0, out.result)

----------------------------------------------------------------------------
(* struct parsed_name *)

NUL == "\\0"         \* the terminator that ends a C string

\* name[i] of a C string held as a sequence: 0-based, the terminator at strlen
At(nm, i) == IF i < Len(nm) THEN nm[i + 1] ELSE NUL

\* parsed_name::is_dec(c)
is_dec(c) == c \in {"0", "1", "2", "3", "4", "5", "6", "7", "8", "9"}

\* parsed_name::to_dec(c), for a decimal character c
to_dec(c) == CHOOSE d \in 0..9 : Digit(d) = c

\* The loop "for (i = 4; i < name_length; i++) if (name[i] == 'D') { d_pos = i;
\* break; }" entered with d_pos = name_length: the d_pos it leaves.
RECURSIVE find_d(_, _)
find_d(nm, i) ==
  IF i >= Len(nm) THEN Len(nm)
  ELSE IF At(nm, i) = "D" THEN i
  ELSE find_d(nm, i + 1)

\* Mutant of dec_loop: the digits are summed, "n *= 10" missing.
RECURSIVE dec_loop_no_shift(_, _, _, _)
dec_loop_no_shift(nm, i, end, n) ==
  IF i >= end THEN [ok |-> TRUE, n |-> n]
  ELSE IF ~is_dec(At(nm, i)) THEN [ok |-> FALSE, n |-> n]
  ELSE dec_loop_no_shift(nm, i + 1, end, n + to_dec(At(nm, i)))

\* The two number loops "for (; i < end; i++) { if (!is_dec(name[i])) return
\* false; n *= 10; n += to_dec(name[i]); }": whether the loop ran to its end,
\* and n as it stands when the loop is left.
RECURSIVE dec_loop(_, _, _, _)
dec_loop(nm, i, end, n) ==
  IF i >= end THEN [ok |-> TRUE, n |-> n]
  ELSE IF ~is_dec(At(nm, i)) THEN [ok |-> FALSE, n |-> n]
  ELSE dec_loop(nm, i + 1, end, n * 10 + to_dec(At(nm, i)))

\* The members of a parsed_name before its constructor's body runs
parsed_name_default == [valid |-> FALSE, card |-> 0, device |-> 0, is_capture |-> FALSE]

\* Mutant of direction: any last character but 'c' is taken for playback.
direction_no_reject(c) ==
  IF c = "c" THEN [ok |-> TRUE, is_capture |-> TRUE]
  ELSE [ok |-> TRUE, is_capture |-> FALSE]

\* The direction test on the last character: is_capture after it, and whether
\* parse goes on.
direction(c) ==
  IF c = "c" THEN [ok |-> TRUE, is_capture |-> TRUE]
  ELSE IF c = "p" THEN [ok |-> TRUE, is_capture |-> FALSE]
  ELSE [ok |-> FALSE, is_capture |-> FALSE]

\* parsed_name::parsed_name(name): valid = parse(name), with the members
\* parse leaves behind on each of its returns.
parse(nm) ==
  LET o     == parsed_name_default
      d_pos == find_d(nm, 4)
      dir   == direction(At(nm, Len(nm) - 1))
      c     == dec_loop(nm, 4, d_pos, 0)
      d     == dec_loop(nm, d_pos + 1, Len(nm) - 1, 0)
  IN  IF Len(nm) = 0 THEN o
      ELSE IF At(nm, 0) # "p" \/ At(nm, 1) # "c" \/ At(nm, 2) # "m" \/ At(nm, 3) # "C" THEN o
      ELSE IF d_pos >= Len(nm) THEN o
      ELSE IF ~dir.ok THEN o
      ELSE IF ~c.ok THEN [o EXCEPT !.is_capture = dir.is_capture, !.card = c.n]
      ELSE IF ~d.ok THEN [o EXCEPT !.is_capture = dir.is_capture, !.card = c.n, !.device = d.n]
      ELSE [valid |-> TRUE, card |-> c.n, device |-> d.n, is_capture |-> dir.is_capture]

----------------------------------------------------------------------------
(* Spec: the operations on handles *)

NoName == <<>>
NoGen  == <<>>
NoPath == <<>>

\* No pcm_list is being constructed
ListOff ==
  /\ list_self = NULL /\ snd_dir = NULL /\ dirstream = FALSE
  /\ dirents = <<>> /\ info_vec = <<>> /\ probes = <<>>

\* The record kept of an operation on handle h: what it returned, and the
\* handle's self, is_open() and get_file_descriptor() as the operation found
\* them; val is the payload of a generic_result, 0 when the operation returns
\* none.  A move construction records the handle built (h), the handle moved
\* from (other) and what the latter held.
Op(op, h, ret, other) ==
  [op |-> op, h |-> h, ret |-> ret, val |-> 0, other |-> other,
   pre_self |-> self[h],
   pre_open |-> is_open(World, self[h]),
   pre_fd   |-> get_file_descriptor(World, self[h])]

\* A member function returned r on a handle whose self is (now) s.
Commit(h, s, r) ==
  /\ self'   = [self EXCEPT ![h] = s]
  /\ allocd' = IF s = NULL THEN allocd ELSE allocd \cup {s}
  /\ fdOf'   = r.w.fdm
  /\ kfds'   = r.w.k
  /\ calls'  = r.w.calls
  /\ UNCHANGED <<hstate, pvars>>

\* The handles other than h keep their history; h's is decided by the caller.
Attempted(h, now) == IF now THEN attempted \cup {h} ELSE attempted \ {h}

Init ==
  /\ hstate = [h \in Handles |-> "none"]
  /\ self   = [h \in Handles |-> NULL]
  /\ allocd = {}
  /\ fdOf   = [i \in ImplIds |-> invalid_fd]
  /\ kfds   = {}
  /\ last   = [op |-> "none", h |-> 0, ret |-> 0, val |-> 0, other |-> 0,
               pre_self |-> NULL, pre_open |-> FALSE, pre_fd |-> invalid_fd]
  /\ calls  = <<>>
  /\ attempted = {}
  /\ pc = "off" /\ name = NoName /\ gen = NoGen /\ dpath = NoPath
  /\ parsed = parsed_name_default
  /\ native = NoNative /\ info = pcm_info_default
  /\ ListOff

\* pcm::pcm()
Construct(h) ==
  /\ hstate[h] = "none"
  /\ hstate' = [hstate EXCEPT ![h] = "alive"]
  /\ self'   = [self EXCEPT ![h] = NULL]
  /\ last'   = Op("construct", h, 0, 0)
  /\ calls'  = <<>>
  /\ attempted' = Attempted(h, FALSE)
  /\ UNCHANGED <<allocd, fdOf, kfds, pvars>>

\* pcm::pcm(pcm&& other)
MoveConstruct(h, other) ==
  /\ hstate[h] = "none" /\ hstate[other] = "alive"
  /\ hstate' = [hstate EXCEPT ![h] = "alive"]
  /\ self'   = pcm_move(h, other)
  /\ last'   = [Op("move", other, 0, 0) EXCEPT !.h = h, !.other = other]
  /\ calls'  = <<>>
  /\ attempted' = IF other \in attempted THEN (attempted \ {other}) \cup {h}
                                         ELSE attempted \ {h}
  /\ UNCHANGED <<allocd, fdOf, kfds, pvars>>

\* pcm::~pcm(): close(), then delete self
Destroy(h) ==
  /\ hstate[h] = "alive"
  /\ \E cout \in CloseOutcomes(World, get_file_descriptor(World, self[h])) :
       LET r == pcm_dtor(World, self[h], cout) IN
       /\ hstate' = [hstate EXCEPT ![h] = "none"]
       /\ self'   = [self EXCEPT ![h] = NULL]
       /\ allocd' = allocd \ {self[h]}
       /\ fdOf'   = [i \in ImplIds |-> IF i = self[h] THEN invalid_fd ELSE r.w.fdm[i]]
       /\ kfds'   = r.w.k
       /\ calls'  = r.w.calls
       /\ last'   = Op("destroy", h, r.ret, 0)
  /\ attempted' = Attempted(h, FALSE)
  /\ UNCHANGED pvars

\* pcm::close()
Close(h) ==
  /\ hstate[h] = "alive"
  /\ \E cout \in CloseOutcomes(World, get_file_descriptor(World, self[h])) :
       LET r == pcm_close(World, self[h], cout) IN
       /\ Commit(h, self[h], r)
       /\ last' = Op("close", h, r.ret, 0)
       /\ UNCHANGED attempted

\* pcm::prepare()
Prepare(h) ==
  /\ hstate[h] = "alive"
  /\ \E out \in IoctlOutcomes(World, get_file_descriptor(World, self[h])) :
       LET r == pcm_ctl(World, self[h], "PREPARE", out) IN
       /\ Commit(h, self[h], r)
       /\ last' = Op("prepare", h, r.ret, 0)
       /\ UNCHANGED attempted

\* pcm::start()
Start(h) ==
  /\ hstate[h] = "alive"
  /\ \E out \in IoctlOutcomes(World, get_file_descriptor(World, self[h])) :
       LET r == pcm_ctl(World, self[h], "START", out) IN
       /\ Commit(h, self[h], r)
       /\ last' = Op("start", h, r.ret, 0)
       /\ UNCHANGED attempted

\* pcm::drop()
Drop(h) ==
  /\ hstate[h] = "alive"
  /\ \E out \in IoctlOutcomes(World, get_file_descriptor(World, self[h])) :
       LET r == pcm_ctl(World, self[h], "DROP", out) IN
       /\ Commit(h, self[h], r)
       /\ last' = Op("drop", h, r.ret, 0)
       /\ UNCHANGED attempted

\* pcm::setup(config)
Setup(h) ==
  /\ hstate[h] = "alive"
  /\ LET r == pcm_setup(World, self[h]) IN
       /\ Commit(h, self[h], r)
       /\ last' = Op("setup", h, r.ret, 0)
       /\ UNCHANGED attempted

\* pcm::get_info()
GetInfo(h) ==
  /\ hstate[h] = "alive"
  /\ \E out \in IoctlOutcomes(World, get_file_descriptor(World, self[h])) :
       LET r == pcm_get_info(World, self[h], out) IN
       /\ Commit(h, self[h], r)
       /\ last' = Op("get_info", h, r.ret, 0)
       /\ UNCHANGED attempted

\* interleaved_pcm_reader::read_unformatted(frames, frame_count)
ReadUnformatted(h, frame_count) ==
  /\ hstate[h] = "alive"
  /\ \E out \in ReadiOutcomes(World, get_file_descriptor(World, self[h]), frame_count) :
       LET r == read_unformatted(World, self[h], frame_count, out) IN
       /\ Commit(h, self[h], r)
       /\ last' = [Op("read_unformatted", h, r.ret, 0) EXCEPT !.val = r.val]
       /\ UNCHANGED attempted

\* The body shared by the two open calls: self = lazy_init(self), the path,
\* open_by_path.
OpenDevice(op, h, path, non_blocking) ==
  /\ hstate[h] = "alive"
  /\ \E s \in lazy_init(self[h]) :
     \E cout \in CloseOutcomes(World, get_file_descriptor(World, s)) :
     \E oout \in OpenOutcomes([World EXCEPT !.k = @ \ {get_file_descriptor(World, s)}]) :
       LET r == pcm_open(World, s, path, non_blocking, cout, oout) IN
       /\ Commit(h, s, r)
       /\ last' = Op(op, h, r.ret, 0)
       /\ attempted' = Attempted(h, TRUE)

\* pcm::open_capture_device(card, device, non_blocking)
OpenCapture(h, card, device, non_blocking) ==
  OpenDevice("open_capture_device", h, capture_path(card, device), non_blocking)

\* pcm::open_playback_device(card, device, non_blocking)
OpenPlayback(h, card, device, non_blocking) ==
  OpenDevice("open_playback_device", h, playback_path(card, device), non_blocking)

Next ==
  \/ \E h \in Handles : Construct(h)
  \/ \E h, other \in Handles : MoveConstruct(h, other)
  \/ \E h \in Handles : Destroy(h)
  \/ \E h \in Handles : Close(h)
  \/ \E h \in Handles : Prepare(h)
  \/ \E h \in Handles : Start(h)
  \/ \E h \in Handles : Drop(h)
  \/ \E h \in Handles : Setup(h)
  \/ \E h \in Handles : GetInfo(h)
  \/ \E h \in Handles, frame_count \in FrameCounts : ReadUnformatted(h, frame_count)
  \/ \E h \in Handles, card, device \in OpenIndices, nb \in BOOLEAN :
       OpenCapture(h, card, device, nb)
  \/ \E h \in Handles, card, device \in OpenIndices, nb \in BOOLEAN :
       OpenPlayback(h, card, device, nb)

Spec == Init /\ [][Next]_vars

----------------------------------------------------------------------------
(* SpecParse: the parser applied to file names *)

MaxNum  == 11        \* names are built from card and device numbers 0..MaxNum
MaxBody == 4         \* and from every string of at most MaxBody characters after a prefix

\* pcmC<card digits>D<device digits> followed by c or p
DeviceName(card, device, is_capture) ==
  <<"p", "c", "m", "C">> \o fmt_lu(card) \o <<"D">> \o fmt_lu(device)
    \o (IF is_capture THEN <<"c">> ELSE <<"p">>)

\* Mutant of device_path: the playback device is opened for a capture name
\* and the capture device for a playback name.
device_path_swapped(card, device, is_capture) ==
  IF is_capture THEN playback_path(card, device) ELSE capture_path(card, device)

\* The path a handle opens for a device: open_capture_device's for a capture
\* device, open_playback_device's for a playback device
device_path(card, device, is_capture) ==
  IF is_capture THEN capture_path(card, device) ELSE playback_path(card, device)

\* The file name of a path, as a directory scan reports it (dirent::d_name):
\* what follows the last slash
d_name(p) ==
  LET slashes == {i \in 1..Len(p) : p[i] = "/"}
      from    == IF slashes = {} THEN 1
                 ELSE 1 + CHOOSE i \in slashes : \A j \in slashes : j <= i
  IN SubSeq(p, from, Len(p))

\* What a name may start with: the prefix, cut short, or wrong in one place
Prefixes == {<<>>, <<"p">>, <<"p", "c">>, <<"p", "c", "m">>, <<"p", "c", "m", "C">>,
             <<"x", "c", "m", "C">>, <<"p", "x", "m", "C">>, <<"p", "c", "x", "C">>,
             <<"p", "c", "m", "D">>}
BodyChars == {"0", "7", "D", "c", "p", "x"}
Bodies == UNION {[1..n -> BodyChars] : n \in 0..MaxBody}

InitParse ==
  /\ hstate = [h \in Handles |-> "none"]
  /\ self   = [h \in Handles |-> NULL]
  /\ allocd = {}
  /\ fdOf   = [i \in ImplIds |-> invalid_fd]
  /\ kfds   = {}
  /\ last   = [op |-> "none", h |-> 0, ret |-> 0, val |-> 0, other |-> 0,
               pre_self |-> NULL, pre_open |-> FALSE, pre_fd |-> invalid_fd]
  /\ calls  = <<>>
  /\ attempted = {}
  /\ pc = "input"
  /\ parsed = parsed_name_default
  /\ native = NoNative /\ info = pcm_info_default
  /\ ListOff
  /\ \/ \E card, device \in 0..MaxNum, is_capture \in BOOLEAN :
          /\ gen  = <<card, device, is_capture>>
          /\ dpath = NoPath
          /\ name = DeviceName(card, device, is_capture)
     \/ \E card, device \in 0..MaxNum, is_capture \in BOOLEAN :
          /\ gen  = <<card, device, is_capture>>
          /\ dpath = device_path(card, device, is_capture)
          /\ name = d_name(dpath)
     \/ \E pre \in Prefixes, body \in Bodies :
          /\ gen  = NoGen
          /\ dpath = NoPath
          /\ name = pre \o body

\* parsed_name name(entry->d_name)
Parse ==
  /\ pc = "input"
  /\ parsed' = parse(name)
  /\ pc' = "done"
  /\ UNCHANGED <<hvars, name, gen, dpath, native, info, lvars>>

NextParse == Parse

SpecParse == InitParse /\ [][NextParse]_vars

----------------------------------------------------------------------------
(* SpecInfo: the native information converted *)

MaxCode == 6         \* native class and subclass codes run over -MaxCode..MaxCode

\* The kernel has answered SNDRV_PCM_IOCTL_INFO with some class and subclass
InitInfo ==
  /\ hstate = [h \in Handles |-> "none"]
  /\ self   = [h \in Handles |-> NULL]
  /\ allocd = {}
  /\ fdOf   = [i \in ImplIds |-> invalid_fd]
  /\ kfds   = {}
  /\ last   = [op |-> "none", h |-> 0, ret |-> 0, val |-> 0, other |-> 0,
               pre_self |-> NULL, pre_open |-> FALSE, pre_fd |-> invalid_fd]
  /\ calls  = <<>>
  /\ attempted = {}
  /\ name = NoName /\ gen = NoGen /\ dpath = NoPath /\ parsed = parsed_name_default
  /\ pc = "native"
  /\ native \in [card : {0}, device : {0},
                 dev_class : (-MaxCode)..MaxCode, dev_subclass : (-MaxCode)..MaxCode]
  /\ info = pcm_info_default
  /\ ListOff

\* return result_type { 0, to_tinyalsa_info(native_info) } of pcm::get_info()
ToInfo ==
  /\ pc = "native"
  /\ info' = to_tinyalsa_info(native)
  /\ pc' = "info"
  /\ UNCHANGED <<hvars, name, gen, dpath, parsed, native, lvars>>

NextInfo == ToInfo

SpecInfo == InitInfo /\ [][NextInfo]_vars

----------------------------------------------------------------------------
(* SpecList: the constructor of pcm_list *)

MaxEntries == 3      \* /dev/snd holds at most MaxEntries entries

\* The names /dev/snd may hold: a capture device, a playback device, a file
\* that is no device, a device name cut short
EntryNames ==
  {DeviceName(0, 1, TRUE), DeviceName(1, 0, FALSE),
   <<"g", "a", "r", "b", "a", "g", "e", ".", "t", "x", "t">>,
   <<"p", "c", "m", "C", "0", "D", "0">>}

\* The listings of at most n distinct names, in any order
RECURSIVE Listings(_)
Listings(n) ==
  IF n = 0 THEN {<<>>}
  ELSE LET shorter == Listings(n - 1)
           longest == {l \in shorter : Len(l) = n - 1}
       IN  shorter \cup UNION {{Append(l, e) : e \in EntryNames \ {l[i] : i \in 1..Len(l)}} :
                                l \in longest}

\* The handle slot of the loop's pcm p
Probe == 1

\* What the kernel answers SNDRV_PCM_IOCTL_INFO with on a descriptor opened at
\* path: the card and device of that device node
DeviceSpace == [card : 0..1, device : 0..1, is_capture : BOOLEAN]
NativeOf(p) ==
  LET d == CHOOSE d \in DeviceSpace : device_path(d.card, d.device, d.is_capture) = p
  IN  [card |-> d.card, device |-> d.device,
       dev_class |-> SNDRV_PCM_CLASS_GENERIC, dev_subclass |-> SNDRV_PCM_SUBCLASS_GENERIC_MIX]

\* dir_wrapper::~dir_wrapper(): closedir(ptr) if ptr; what becomes of the
\* directory stream
dir_wrapper_dtor(ptr, stream) == IF ptr # NULL THEN FALSE ELSE stream

\* Mutant of loop_exit: a candidate that failed to open or to report ends the
\* scan as well.
loop_exit_on_failure(probe_failed, emplaced) == probe_failed \/ ~emplaced

\* How an iteration that probed a candidate leaves the loop body: continue
\* when the open or get_info failed, continue after emplace_back, break
\* (TRUE) only when emplace_back threw.
loop_exit(probe_failed, emplaced) == ~probe_failed /\ ~emplaced

\* pcm_list::size()
pcm_list_size == IF list_self # NULL THEN Len(info_vec) ELSE 0

\* The record opened for an entry read
Probed(nm) ==
  [name |-> nm, path |-> NoPath, opened |-> FALSE, queried |-> FALSE, appended |-> FALSE]

InitList ==
  /\ hstate = [h \in Handles |-> "none"]
  /\ self   = [h \in Handles |-> NULL]
  /\ allocd = {}
  /\ fdOf   = [i \in ImplIds |-> invalid_fd]
  /\ kfds   = {}
  /\ last   = [op |-> "none", h |-> 0, ret |-> 0, val |-> 0, other |-> 0,
               pre_self |-> NULL, pre_open |-> FALSE, pre_fd |-> invalid_fd]
  /\ calls  = <<>>
  /\ attempted = {}
  /\ name = NoName /\ gen = NoGen /\ dpath = NoPath /\ parsed = parsed_name_default
  /\ native = NoNative /\ info = pcm_info_default
  /\ pc = "list_new"
  /\ list_self = NULL /\ snd_dir = NULL /\ dirstream = FALSE
  /\ dirents \in Listings(MaxEntries)
  /\ info_vec = <<>> /\ probes = <<>>

\* self = new (std::nothrow) pcm_list_impl(); snd_dir.open("/dev/snd"): either
\* may fail, and the constructor returns
ListNew ==
  /\ pc = "list_new"
  /\ \E allocated, opened \in BOOLEAN :
       /\ list_self' = IF allocated THEN 1 ELSE NULL
       /\ snd_dir'   = IF allocated /\ opened THEN 1 ELSE NULL
       /\ dirstream' = (allocated /\ opened)
       /\ pc' = IF allocated /\ opened THEN "list_readdir" ELSE "list_done"
  /\ UNCHANGED <<hvars, name, gen, dpath, parsed, native, info, dirents, info_vec, probes>>

\* The loop's pcm p goes out of scope: ~pcm on self s, having left world d
ProbeDestroyed(s, d) ==
  /\ hstate' = [hstate EXCEPT ![Probe] = "none"]
  /\ self'   = [self EXCEPT ![Probe] = NULL]
  /\ allocd' = allocd \ {s}
  /\ fdOf'   = [i \in ImplIds |-> IF i = s THEN invalid_fd ELSE d.w.fdm[i]]
  /\ kfds'   = d.w.k
  /\ calls'  = d.w.calls

\* The loop's pcm p stays in scope, its self s, a member function having
\* returned r
ProbeKept(s, r) ==
  /\ self'   = [self EXCEPT ![Probe] = s]
  /\ allocd' = IF s = NULL THEN allocd ELSE allocd \cup {s}
  /\ fdOf'   = r.w.fdm
  /\ kfds'   = r.w.k
  /\ calls'  = r.w.calls
  /\ UNCHANGED hstate

\* The loop body is left: by break, snd_dir going out of scope as the
\* constructor returns, or by continue
EndIteration(exit) ==
  IF exit
  THEN /\ dirstream' = dir_wrapper_dtor(snd_dir, dirstream)
       /\ snd_dir' = NULL
       /\ pc' = "list_done"
  ELSE /\ pc' = "list_readdir"
       /\ UNCHANGED <<snd_dir, dirstream>>

\* entry = readdir(snd_dir); break at the end, where snd_dir goes out of
\* scope; parsed_name name(entry->d_name); continue when not valid; pcm p
ListReaddir ==
  /\ pc = "list_readdir"
  /\ IF dirents = <<>>
     THEN /\ EndIteration(TRUE)
          /\ UNCHANGED <<hstate, name, parsed, dirents, probes>>
     ELSE /\ name' = Head(dirents)
          /\ dirents' = Tail(dirents)
          /\ parsed' = parse(Head(dirents))
          /\ probes' = Append(probes, Probed(Head(dirents)))
          /\ hstate' = IF parse(Head(dirents)).valid
                       THEN [hstate EXCEPT ![Probe] = "alive"] ELSE hstate
          /\ pc' = IF parse(Head(dirents)).valid THEN "list_open" ELSE "list_readdir"
          /\ UNCHANGED <<snd_dir, dirstream>>
  /\ UNCHANGED <<self, allocd, fdOf, kfds, last, calls, attempted>>
  /\ UNCHANGED <<gen, dpath, native, info, list_self, info_vec>>

\* p.open_capture_device(name.card, name.device) or p.open_playback_device,
\* non_blocking left to the default of the declaration, either value here;
\* continue when it failed, p going out of scope
ListOpen ==
  /\ pc = "list_open"
  /\ \E s \in lazy_init(self[Probe]), non_blocking \in BOOLEAN :
     \E cout \in CloseOutcomes(World, get_file_descriptor(World, s)) :
     \E oout \in OpenOutcomes([World EXCEPT !.k = @ \ {get_file_descriptor(World, s)}]) :
       LET p == device_path(parsed.card, parsed.device, parsed.is_capture)
           r == pcm_open(World, s, p, non_blocking, cout, oout)
           asked == IF r.w.calls = <<>> THEN NoPath ELSE r.w.calls[Len(r.w.calls)].arg[1]
       IN  /\ probes' = [probes EXCEPT ![Len(probes)].path = asked,
                                       ![Len(probes)].opened = ~failed(r.ret)]
           /\ IF failed(r.ret)
              THEN /\ \E dout \in CloseOutcomes(r.w, get_file_descriptor(r.w, s)) :
                        ProbeDestroyed(s, pcm_dtor(r.w, s, dout))
                   /\ EndIteration(loop_exit(TRUE, FALSE))
              ELSE /\ ProbeKept(s, r)
                   /\ pc' = "list_get_info"
                   /\ UNCHANGED <<snd_dir, dirstream>>
  /\ UNCHANGED <<last, attempted>>
  /\ UNCHANGED <<name, gen, dpath, parsed, native, info, list_self, dirents, info_vec>>

\* auto info_result = p.get_info(); continue when it failed; else
\* self->info_vec.emplace_back(info_result.unwrap()), break when that throws.
\* Either way p goes out of scope, and on break snd_dir as well.
ListGetInfo ==
  /\ pc = "list_get_info"
  /\ \E out \in IoctlOutcomes(World, get_file_descriptor(World, self[Probe])) :
     \E dout \in CloseOutcomes(World, get_file_descriptor(World, self[Probe])) :
     \E emplaced \in BOOLEAN :
       LET r   == pcm_get_info(World, self[Probe], out)
           nat == NativeOf(probes[Len(probes)].path)
       IN  /\ ProbeDestroyed(self[Probe], pcm_dtor(r.w, self[Probe], dout))
           /\ IF failed(r.ret)
              THEN /\ EndIteration(loop_exit(TRUE, FALSE))
                   /\ UNCHANGED <<native, info, info_vec, probes>>
              ELSE /\ native' = nat
                   /\ info' = to_tinyalsa_info(nat)
                   /\ probes' = [probes EXCEPT ![Len(probes)].queried = TRUE,
                                               ![Len(probes)].appended = emplaced]
                   /\ info_vec' = IF emplaced THEN Append(info_vec, to_tinyalsa_info(nat))
                                  ELSE info_vec
                   /\ EndIteration(loop_exit(FALSE, emplaced))
  /\ UNCHANGED <<last, attempted, name, gen, dpath, parsed, list_self, dirents>>

NextList == ListNew \/ ListReaddir \/ ListOpen \/ ListGetInfo

SpecList == InitList /\ [][NextList]_vars

----------------------------------------------------------------------------
(* Properties of Spec *)

Alive   == {h \in Handles : hstate[h] = "alive"}
IsOpen(h) == is_open(World, self[h])
Fd(h)     == get_file_descriptor(World, self[h])

Opens == {"open_capture_device", "open_playback_device"}
Ctls  == {"prepare", "start", "drop", "get_info"}

CloseCall(f, c) == c.call = "close" /\ c.fd = f
OpenCall(c)     == c.call = "open"
\* The open call of the last operation, which issued one
LastOpen == calls[Len(calls)]

\* C1: a handle never holds two live descriptors.  Every descriptor open in
\* the process is the current descriptor of a live handle, so none that a
\* handle obtained earlier is left open; and an open on a handle that is open
\* issues exactly ::close on the descriptor held and then ::open, in that
\* order, while an open on a handle that is not open issues ::open alone.
C1_OneLiveDescriptor ==
  /\ kfds = {Fd(h) : h \in Alive} \ {invalid_fd}
  /\ (last.op \in Opens /\ self[last.h] # NULL) =>
       IF last.pre_open
       THEN /\ Len(calls) = 2
            /\ CloseCall(last.pre_fd, calls[1])
            /\ OpenCall(calls[2])
       ELSE /\ Len(calls) = 1
            /\ OpenCall(calls[1])

\* An open on an open handle has closed the descriptor held and holds a new one.
C1_Witness ==
  /\ last.op \in Opens /\ last.pre_open /\ last.ret = 0
  /\ Len(calls) = 2 /\ calls[1].out # 0
  /\ IsOpen(last.h)

\* C2: a handle just constructed is not open and reports invalid_fd; a handle
\* is open right after an open call that returned success and not open right
\* after any close(); and at all times is_open() is true exactly when
\* get_file_descriptor() is not invalid_fd.
C2_Lifecycle ==
  /\ last.op = "construct" => (~IsOpen(last.h) /\ Fd(last.h) = invalid_fd)
  /\ (last.op \in Opens /\ last.ret = 0) => IsOpen(last.h)
  /\ last.op = "close" => ~IsOpen(last.h)
  /\ \A h \in Alive : IsOpen(h) <=> (Fd(h) # invalid_fd)

\* close() has just closed a handle that was open, which an earlier open opened.
C2_Witness ==
  /\ last.op = "close" /\ last.pre_open
  /\ ~IsOpen(last.h) /\ last.h \in attempted

\* C3: close() on an open handle issues one ::close on the descriptor held and
\* leaves the handle empty whatever ::close answered; it returns the errno of
\* ::close when that failed and 0 when it succeeded.
C3_CloseOpenHandle ==
  (last.op = "close" /\ last.pre_open) =>
    /\ ~IsOpen(last.h) /\ Fd(last.h) = invalid_fd
    /\ Len(calls) = 1 /\ CloseCall(last.pre_fd, calls[1])
    /\ last.ret = calls[1].out
    /\ last.pre_fd \notin kfds

\* close() on an open handle, whose ::close failed
C3_Witness ==
  /\ last.op = "close" /\ last.pre_open
  /\ Len(calls) = 1 /\ calls[1].out \in CloseErrnos
  /\ last.ret \in CloseErrnos /\ ~IsOpen(last.h)

\* C4: close() on a handle that is not open returns 0, issues no system call
\* and leaves the handle as it was (the same self, still invalid_fd).
C4_CloseIdempotent ==
  (last.op = "close" /\ ~last.pre_open) =>
    /\ last.ret = 0
    /\ calls = <<>>
    /\ self[last.h] = last.pre_self
    /\ Fd(last.h) = last.pre_fd /\ Fd(last.h) = invalid_fd

\* close() on a handle that holds a pcm_impl (an open was attempted) but no descriptor
C4_Witness ==
  /\ last.op = "close" /\ ~last.pre_open /\ last.pre_self # NULL
  /\ last.ret = 0

\* C5: an open call returns 0 exactly when it leaves the handle open, on a
\* descriptor open in the process.  When no pcm_impl could be allocated it
\* returns ENOMEM, issues no call and the handle stays empty; otherwise its
\* last call is ::open and its result is that call's alone: 0 when ::open
\* succeeded, else the errno of ::open with the handle left on invalid_fd,
\* whatever the ::close of a descriptor held before answered.
C5_OpenResult ==
  last.op \in Opens =>
    /\ (last.ret = 0) <=> IsOpen(last.h)
    /\ IsOpen(last.h) => Fd(last.h) \in kfds
    /\ IF self[last.h] = NULL
       THEN last.ret = ENOMEM /\ calls = <<>> /\ last.pre_self = NULL
       ELSE /\ calls # <<>> /\ OpenCall(LastOpen)
            /\ IF LastOpen.out >= 0
               THEN last.ret = 0 /\ Fd(last.h) = LastOpen.out
               ELSE last.ret = -LastOpen.out /\ Fd(last.h) = invalid_fd

\* An open on an open handle: closing the descriptor held failed, ::open succeeded
C5_Witness ==
  /\ last.op \in Opens /\ Len(calls) = 2
  /\ calls[1].out \in CloseErrnos /\ calls[2].out >= 0
  /\ last.ret = 0 /\ IsOpen(last.h)

\* C6: on a handle on which no open has been attempted (constructed, or moved
\* from, and not opened since), prepare(), start(), drop() and get_info()
\* return ENOENT, issue no control call and leave the handle closed.
C6_NeverOpened ==
  (last.op \in Ctls /\ last.h \notin attempted) =>
    /\ last.ret = ENOENT
    /\ calls = <<>>
    /\ ~IsOpen(last.h) /\ Fd(last.h) = invalid_fd

\* start() on a handle no open was attempted on, beside a handle that is open
C6_Witness ==
  /\ last.op = "start" /\ last.h \notin attempted /\ last.ret = ENOENT
  /\ \E h \in Alive \ {last.h} : h \in attempted /\ IsOpen(h)

\* C7: prepare(), start(), drop(), get_info() and setup() leave is_open() and
\* get_file_descriptor() (and self) as they found them, whatever the control
\* call answered; the descriptor of an open handle stays open in the process.
C7_CtlKeepsState ==
  last.op \in Ctls \cup {"setup"} =>
    /\ IsOpen(last.h) = last.pre_open
    /\ Fd(last.h) = last.pre_fd
    /\ self[last.h] = last.pre_self
    /\ last.pre_open => last.pre_fd \in kfds

\* prepare() on an open handle, whose control call failed
C7_Witness ==
  /\ last.op = "prepare" /\ last.pre_open
  /\ Len(calls) = 1 /\ calls[1].out \in IoctlErrnos /\ last.ret \in IoctlErrnos
  /\ IsOpen(last.h)

\* C8: a move construction hands the new handle exactly the pcm_impl and
\* descriptor the source held and leaves the source empty; a destructor closes
\* the descriptor its handle still holds; so every descriptor open in the
\* process is held by exactly one live handle, every open handle's descriptor
\* is open in the process (closing or destroying a moved-from source closed
\* nothing of the destination's), and no two handles share a pcm_impl.
C8_MoveOwnership ==
  /\ last.op = "move" =>
       /\ self[last.h] = last.pre_self /\ Fd(last.h) = last.pre_fd
       /\ IsOpen(last.h) = last.pre_open
       /\ self[last.other] = NULL /\ ~IsOpen(last.other)
       /\ Fd(last.other) = invalid_fd
  /\ last.op = "destroy" =>
       /\ last.pre_fd \notin kfds
       /\ last.pre_open => (Len(calls) = 1 /\ CloseCall(last.pre_fd, calls[1]))
  /\ \A f \in kfds : Cardinality({h \in Alive : Fd(h) = f}) = 1
  /\ \A h \in Alive : IsOpen(h) => Fd(h) \in kfds
  /\ \A h, g \in Alive : (h # g /\ self[h] # NULL) => self[h] # self[g]

\* A handle has been move-constructed from an open handle: it holds the
\* descriptor, the source lives on empty.
C8_Witness ==
  /\ last.op = "move" /\ last.pre_open
  /\ IsOpen(last.h) /\ Fd(last.h) \in kfds
  /\ last.other \in Alive /\ ~IsOpen(last.other)

\* The system calls of the last operation that are a read, a control call of
\* prepare/start/drop/get_info, a close
ReadCall(c) == c.call = "READI_FRAMES"
CtlCall(c)  == c.call \in {"PREPARE", "START", "DROP", "INFO"}
Closes      == {i \in 1..Len(calls) : calls[i].call = "close"}

\* C15: a read whose system call succeeds having transferred k of the N frames
\* asked for (0 <= k <= N) returns a non-failed result whose payload is exactly
\* k; the read call is issued once, never again to make up a short read.
C15_ShortRead ==
  last.op = "read_unformatted" =>
    /\ Len(calls) = 1 /\ ReadCall(calls[1])
    /\ calls[1].out = 0 =>
         /\ last.ret = 0
         /\ last.val = calls[1].arg[2]
         /\ last.val \in 0..calls[1].arg[1]

\* A read of 2 frames that transferred 1
C15_Witness ==
  /\ last.op = "read_unformatted" /\ last.pre_open
  /\ Len(calls) = 1 /\ calls[1].out = 0 /\ calls[1].arg = <<2, 1>>
  /\ last.ret = 0 /\ last.val = 1

\* C16: a read whose system call fails, with whatever errno (would-block
\* included, and the bad-descriptor error of a reader that is not open), returns
\* EINVAL with a frame count of 0 and leaves the handle as open or closed as
\* it was, holding the same descriptor.
C16_ReadFailure ==
  (last.op = "read_unformatted" /\ calls[Len(calls)].out # 0) =>
    /\ last.ret = EINVAL /\ last.val = 0
    /\ self[last.h] = last.pre_self
    /\ IsOpen(last.h) = last.pre_open /\ Fd(last.h) = last.pre_fd
    /\ last.pre_open => last.pre_fd \in kfds

\* A read on an open reader that failed with EAGAIN (11, would-block)
C16_Witness ==
  /\ last.op = "read_unformatted" /\ last.pre_open
  /\ calls[1].out = 11 /\ last.ret = EINVAL /\ last.val = 0
  /\ IsOpen(last.h)

\* A read on a reader that is not open: the call fails with EBADF
C16_WitnessNotOpen ==
  /\ last.op = "read_unformatted" /\ ~last.pre_open
  /\ calls[1].fd = invalid_fd /\ calls[1].out = EBADF
  /\ last.ret = EINVAL /\ last.val = 0

\* C18: prepare(), start(), drop() and get_info() issue their control call
\* only on an open descriptor: no PREPARE, START, DROP or INFO call is ever
\* issued on the invalid sentinel, after close() and after a failed open
\* included.
C18_CtlOnOpenDescriptor ==
  \A i \in 1..Len(calls) : CtlCall(calls[i]) => calls[i].fd # invalid_fd

\* A control call issued on the invalid sentinel by a handle that is
\* allocated but not open
C18_CtlOnSentinel ==
  /\ last.op \in Ctls /\ last.pre_self # NULL /\ ~last.pre_open
  /\ Len(calls) = 1 /\ CtlCall(calls[1]) /\ calls[1].fd = invalid_fd
  /\ last.ret = EBADF

\* C20: no descriptor is closed twice.  Every ::close an operation issues is
\* on the descriptor its handle held and had open, never on the invalid
\* sentinel and never on a descriptor the table no longer holds; an operation
\* issues at most one; afterwards no pcm_impl holds the descriptor closed
\* unless a later ::open of the same operation returned that number again; and
\* no two pcm_impl hold the same descriptor, so no other handle closes it.
C20_NoDoubleClose ==
  /\ Cardinality(Closes) <= 1
  /\ \A i \in Closes :
       /\ calls[i].fd # invalid_fd /\ calls[i].out # EBADF
       /\ last.pre_open /\ calls[i].fd = last.pre_fd
       /\ \A s \in allocd : fdOf[s] = calls[i].fd =>
            \E j \in (i + 1)..Len(calls) : OpenCall(calls[j]) /\ calls[j].out = calls[i].fd
  /\ \A s, t \in allocd : (s # t /\ fdOf[s] # invalid_fd) => fdOf[s] # fdOf[t]
  /\ \A s \in allocd : fdOf[s] # invalid_fd => fdOf[s] \in kfds

\* A reopen whose ::close of the descriptor held failed and whose ::open was
\* given the same descriptor number again
C20_Witness ==
  /\ last.op \in Opens /\ last.pre_open
  /\ Len(calls) = 2 /\ CloseCall(last.pre_fd, calls[1]) /\ calls[1].out \in CloseErrnos
  /\ OpenCall(calls[2]) /\ calls[2].out = last.pre_fd
  /\ Fd(last.h) = last.pre_fd

----------------------------------------------------------------------------
(* Properties of SpecParse *)

\* C9: a name pcmC<card digits>D<device digits> followed by 'c' or 'p', built
\* from any card and device number and direction, is reported valid and parses
\* to that card, that device and that direction ('c' capture, 'p' playback).
C9_ParserAccepts ==
  (pc = "done" /\ gen # NoGen) =>
    parsed = [valid |-> TRUE, card |-> gen[1], device |-> gen[2], is_capture |-> gen[3]]

\* The name of playback device 11 of card 10 has been parsed
C9_Witness ==
  /\ pc = "done" /\ gen = <<10, 11, FALSE>>
  /\ name = <<"p", "c", "m", "C", "1", "0", "D", "1", "1", "p">>
  /\ parsed.valid /\ parsed.card = 10 /\ parsed.device = 11 /\ ~parsed.is_capture

\* The grounds for rejecting a name nm, read off the name alone (positions
\* from 1: offset 4 is position 5).
DecimalChars == {"0", "1", "2", "3", "4", "5", "6", "7", "8", "9"}
HasPrefix(nm) == Len(nm) >= 4 /\ SubSeq(nm, 1, 4) = <<"p", "c", "m", "C">>
DPositions(nm) == {i \in 5..Len(nm) : nm[i] = "D"}
FirstD(nm) == CHOOSE i \in DPositions(nm) : \A j \in DPositions(nm) : i <= j
BadCardSpan(nm) ==
  DPositions(nm) # {} /\ \E i \in 5..(FirstD(nm) - 1) : nm[i] \notin DecimalChars
BadDeviceSpan(nm) ==
  DPositions(nm) # {} /\ \E i \in (FirstD(nm) + 1)..(Len(nm) - 1) : nm[i] \notin DecimalChars
BadLast(nm) == nm # <<>> /\ nm[Len(nm)] \notin {"c", "p"}
Rejectable(nm) ==
  \/ nm = <<>>
  \/ ~HasPrefix(nm)
  \/ DPositions(nm) = {}
  \/ BadCardSpan(nm)
  \/ BadDeviceSpan(nm)
  \/ BadLast(nm)

\* C10: a name that is empty, does not start with pcmC, has no 'D' from offset
\* 4 on, has a non-digit between offset 4 and the first 'D' or between that
\* 'D' and the last character, or does not end in 'c' or 'p', is reported
\* invalid.
C10_ParserRejects ==
  (pc = "done" /\ Rejectable(name)) => ~parsed.valid

\* A name rejected for its device span, and for nothing else, has been parsed
C10_Witness ==
  /\ pc = "done" /\ name = <<"p", "c", "m", "C", "0", "D", "x", "c">>
  /\ BadDeviceSpan(name) /\ ~BadCardSpan(name) /\ ~BadLast(name) /\ HasPrefix(name)
  /\ ~parsed.valid

\* The card span of nm (between the prefix and the first D) and its device
\* span (between the first D and the last character), as sequences
CardSpan(nm)   == SubSeq(nm, 5, FirstD(nm) - 1)
DeviceSpan(nm) == SubSeq(nm, FirstD(nm) + 1, Len(nm) - 1)

\* C11: the parser reports a name valid only if it has one or more decimal
\* digits for the card and one or more for the device: a name whose card span
\* or device span is empty (pcmCD0c, pcmC0Dc, pcmCDp) is reported invalid.
C11_EmptySpanInvalid ==
  (pc = "done" /\ parsed.valid) =>
    /\ HasPrefix(name) /\ DPositions(name) # {}
    /\ CardSpan(name) # <<>> /\ DeviceSpan(name) # <<>>

\* The names the parser reports valid although a span is empty
C11_EmptySpanAccepted ==
  /\ pc = "done" /\ parsed.valid
  /\ HasPrefix(name) /\ DPositions(name) # {}
  /\ (CardSpan(name) = <<>> \/ DeviceSpan(name) = <<>>)

\* C12: the file name of the path that open_capture_device or
\* open_playback_device builds for (card, device) is accepted by the parser and
\* parses back to the same card, the same device and the same direction.
C12_PathRoundTrip ==
  (pc = "done" /\ dpath # NoPath) =>
    /\ dpath = DevSnd \o name
    /\ parsed = [valid |-> TRUE, card |-> gen[1], device |-> gen[2], is_capture |-> gen[3]]

\* The name of the path of capture device 1 of card 2 has been parsed
C12_Witness ==
  /\ pc = "done" /\ gen = <<2, 1, TRUE>> /\ dpath = capture_path(2, 1)
  /\ name = <<"p", "c", "m", "C", "2", "D", "1", "c">>
  /\ parsed = [valid |-> TRUE, card |-> 2, device |-> 1, is_capture |-> TRUE]

----------------------------------------------------------------------------
(* Properties of SpecList *)

\* What an entry named nm stands for when nm is a device name: the path of
\* its device node and the snapshot of that device
ExpectedPath(nm) == DevSnd \o nm
ExpectedInfo(nm) ==
  LET d == CHOOSE d \in DeviceSpace : DeviceName(d.card, d.device, d.is_capture) = nm
  IN  [card |-> d.card, device |-> d.device, class_ |-> "generic", subclass |-> "generic_mix"]
Snapshots(entries) == [i \in 1..Len(entries) |-> ExpectedInfo(entries[i].name)]

\* The entries read whose device opened and reported, and those of them that
\* were appended; the candidates that failed to open or to report
Succeeded(q) == parse(q.name).valid /\ q.opened /\ q.queried
Appended(q)  == Succeeded(q) /\ q.appended
Failed(q)    == parse(q.name).valid /\ ~(q.opened /\ q.queried)

\* Every device opened for an entry is the one its name spells (capture for a
\* final c, playback for a final p, the card and device of the name), and
\* nothing is opened for an entry whose name is not valid.
ProbesFollowNames ==
  \A i \in 1..Len(probes) :
    /\ probes[i].opened => probes[i].path = ExpectedPath(probes[i].name)
    /\ probes[i].path # NoPath => probes[i].path = ExpectedPath(probes[i].name)
    /\ ~parse(probes[i].name).valid => probes[i].path = NoPath /\ ~probes[i].opened

\* C13 as stated: the list holds exactly one snapshot for each entry whose
\* name parses as valid and whose open and get_info both succeeded, in scan
\* order, and nothing for any other entry; each device opened is the one the
\* name spells.
C13_ListOfSucceeded ==
  pc = "list_done" =>
    /\ info_vec = Snapshots(SelectSeq(probes, Succeeded))
    /\ ProbesFollowNames

\* C13 amended: the list holds exactly one snapshot for each entry whose name
\* parses as valid, whose open and get_info both succeeded and whose snapshot
\* was appended, in scan order, and nothing for any other entry; an entry whose
\* snapshot could not be appended is the last entry read.  Each device opened
\* is the one the name spells.
C13_ListOfAppended ==
  pc = "list_done" =>
    /\ info_vec = Snapshots(SelectSeq(probes, Appended))
    /\ pcm_list_size = Len(SelectSeq(probes, Appended))
    /\ \A i \in 1..Len(probes) : (Succeeded(probes[i]) /\ ~probes[i].appended) => i = Len(probes)
    /\ ProbesFollowNames

\* Playback device 0 of card 1, garbage.txt and capture device 1 of card 0 were
\* read in that order: two snapshots, in that order
C13_Witness ==
  /\ pc = "list_done" /\ Len(probes) = 3
  /\ probes[1].name = DeviceName(1, 0, FALSE) /\ probes[1].path = playback_path(1, 0)
  /\ probes[2].name = <<"g", "a", "r", "b", "a", "g", "e", ".", "t", "x", "t">>
  /\ probes[3].name = DeviceName(0, 1, TRUE) /\ probes[3].path = capture_path(0, 1)
  /\ Len(info_vec) = 2
  /\ info_vec[1].card = 1 /\ info_vec[1].device = 0
  /\ info_vec[2].card = 0 /\ info_vec[2].device = 1

\* C14 as stated: a candidate that fails to open or to report does not end
\* the scan: every later entry is still read, and a later entry whose device
\* opens and reports always appears in the list.  A directory that cannot be
\* opened gives an empty list, size() = 0.
C14_FailuresSkipped ==
  pc = "list_done" =>
    /\ \A i \in 1..Len(probes) : Failed(probes[i]) =>
         /\ dirents = <<>>
         /\ \A j \in (i + 1)..Len(probes) : Succeeded(probes[j]) =>
              \E k \in 1..Len(info_vec) : info_vec[k] = ExpectedInfo(probes[j].name)
    /\ probes = <<>> => pcm_list_size = 0

\* C14 amended: a candidate that fails to open or to report does not end the
\* scan: the scan ends only when the directory has no more entries or when a
\* snapshot cannot be appended, and a later entry whose device opens and
\* reports appears in the list unless appending it failed.  A directory that
\* cannot be opened gives an empty list, size() = 0.
C14_OnlyAppendEndsScan ==
  pc = "list_done" =>
    /\ \A i \in 1..Len(probes) : Failed(probes[i]) =>
         /\ dirents # <<>> =>
              (Succeeded(probes[Len(probes)]) /\ ~probes[Len(probes)].appended)
         /\ \A j \in (i + 1)..Len(probes) : Appended(probes[j]) =>
              \E k \in 1..Len(info_vec) : info_vec[k] = ExpectedInfo(probes[j].name)
         /\ \A j \in (i + 1)..Len(probes) :
              (Succeeded(probes[j]) /\ ~probes[j].appended) => j = Len(probes)
    /\ probes = <<>> => pcm_list_size = 0

\* The first candidate failed to open, the next opened, reported and is the
\* one snapshot of the list
C14_Witness ==
  /\ pc = "list_done" /\ Len(probes) >= 2
  /\ Failed(probes[1]) /\ ~probes[1].opened
  /\ Appended(probes[2])
  /\ info_vec = <<ExpectedInfo(probes[2].name)>>

\* The directory could not be opened although it holds a device: the list is
\* allocated and empty
C14_WitnessNoDirectory ==
  /\ pc = "list_done" /\ list_self # NULL /\ probes = <<>> /\ dirents # <<>>
  /\ pcm_list_size = 0

\* C19: the enumeration releases every probe resource on every exit path.  At
\* most one probe descriptor is open at any moment; the descriptor (and the
\* pcm_impl) of an entry is gone before the next entry is read, whether
\* get_info succeeded, failed, or appending failed and ended the scan; at the
\* end no descriptor is open and the directory stream is closed.
C19_ProbeReleased ==
  /\ Cardinality(kfds) <= 1 /\ Cardinality(allocd) <= 1
  /\ pc \in {"list_readdir", "list_done"} =>
       /\ kfds = {} /\ allocd = {}
       /\ hstate[Probe] = "none" /\ self[Probe] = NULL
  /\ pc = "list_done" => (~dirstream /\ snd_dir = NULL)

\* The scan ended early on a snapshot that could not be appended: the probe's
\* descriptor was closed (the close failing) and the directory stream too
C19_Witness ==
  /\ pc = "list_done" /\ dirents # <<>> /\ probes # <<>>
  /\ Succeeded(probes[Len(probes)]) /\ ~probes[Len(probes)].appended
  /\ calls # <<>> /\ calls[Len(calls)].call = "close" /\ calls[Len(calls)].out \in CloseErrnos
  /\ kfds = {} /\ ~dirstream

----------------------------------------------------------------------------
(* Properties of SpecInfo *)

\* The codes the two switches list
KnownClasses    == {SNDRV_PCM_CLASS_GENERIC, SNDRV_PCM_CLASS_MULTI,
                    SNDRV_PCM_CLASS_MODEM, SNDRV_PCM_CLASS_DIGITIZER}
KnownSubclasses == {SNDRV_PCM_SUBCLASS_GENERIC_MIX, SNDRV_PCM_SUBCLASS_MULTI_MIX}

\* C17: the metadata mapping is total.  Every native class code gives a class
\* among unknown, generic, multi_channel, modem, digitizer and every native
\* subclass code a subclass among unknown, generic_mix, multi_channel_mix; a
\* code the switch does not list gives unknown.
C17_MappingTotal ==
  pc = "info" =>
    /\ info.class_ \in pcm_class /\ info.subclass \in pcm_subclass
    /\ native.dev_class \notin KnownClasses => info.class_ = "unknown"
    /\ native.dev_subclass \notin KnownSubclasses => info.subclass = "unknown"

\* A class code past the last one listed and a negative subclass code have
\* been converted
C17_Witness ==
  /\ pc = "info" /\ native.dev_class = 4 /\ native.dev_subclass = -1
  /\ info.class_ = "unknown" /\ info.subclass = "unknown"

====
